---- MODULE Spec2Model ----
(***************************************************************************)
(* Model of the BasicFIM integrity monitoring engine:                      *)
(*   services/fim-api/fim_scanner/core/monitor.py      (FileMonitor,       *)
(*                                                      FIMEventHandler)   *)
(*   services/fim-api/fim_scanner/database/database.py (DatabaseManager)   *)
(*   services/fim-api/fim_scanner/database/initialize_baseline.py          *)
(*                                                                         *)
(* A path is a sequence of tokens (its directory, then the pieces of its   *)
(* file name); Python's substring test `pattern in file_path` is the       *)
(* membership of the pattern among the tokens.  A content hash is an       *)
(* abstract value; Python's None is the string "None".  A database lookup  *)
(* returns a set of rows: {} is Python's None, {row} is the row.           *)
(***************************************************************************)
EXTENDS Integers, Sequences, FiniteSets

\* ------------------------------------------------------------------ bounds
MaxChanges == 2     \* file system mutations made by the environment
MaxEvents == 2      \* rows ever inserted into change_log
MaxTime == 1        \* days the clock advances
MaxRows == 3        \* rows ever inserted into monitored_files
MaxHandlers == 2    \* handlers scheduled on one root

\* ------------------------------------------------------ the world's values
None == "None"
Hashes == {"h1", "h2"}

PathA == <<"/data", "a", ".txt">>
PathB == <<"/srv", "b", ".txt">>
PathC == <<"/data", "c", ".bak">>
PathD == <<"/data", "d", ".txt">>
Paths == {PathA, PathB, PathC, PathD}

\* The paths at which the environment holds files: one file in the full
\* machine, two in the machine of the scans.  Notifications arrive for every
\* path.
Files == {PathA}
ScanFiles == {PathA, PathB}

\* The order in which a walk of the roots yields the files.
WalkOrder == <<PathA, PathC, PathD, PathB>>

\* What a path holds: nothing, a regular file, a symbolic link to a regular
\* file (hash and readable are the target's), or a directory.
NoFile == [present |-> FALSE, hash |-> None, readable |-> FALSE, kind |-> "none"]
FileStates == {NoFile} \cup [present : {TRUE}, hash : Hashes, readable : BOOLEAN,
                             kind : {"file"}]
LinkStates == [present : {TRUE}, hash : Hashes, readable : {TRUE}, kind : {"link"}]
Directory == [present |-> TRUE, hash |-> None, readable |-> FALSE, kind |-> "dir"]

\* A regular file in a subdirectory that can be listed but not searched
\* (mode r--): the walk yields its path, stat of the path raises
\* PermissionError.
DeniedStates == [present : {TRUE}, hash : Hashes, readable : {FALSE}, kind : {"denied"}]

\* config['paths_to_monitor'] and config['excluded_patterns']
monitoring_paths == <<"/data", "/srv">>
excluded_patterns == {".bak"}

EventTypes == {"created", "modified", "deleted", "moved", "renamed"}

SecondsPerDay == 24 * 60 * 60

VARIABLES
    fs,               \* the file system: path -> file state
    monitored_files,  \* table monitored_files: a set of rows
    change_log,       \* table change_log: the rows in insertion order
    file_seq,         \* sqlite_sequence of monitored_files (AUTOINCREMENT)
    log_seq,          \* sqlite_sequence of change_log (AUTOINCREMENT)
    now,              \* datetime.now().timestamp(), in seconds
    changes,          \* history: path -> number of changes made to the file
    last,             \* history: the operation that led to this state
    is_monitoring,    \* FileMonitor.is_monitoring
    observer,         \* FileMonitor.observer: the watchdog Observer thread
    threads,          \* thread -> the call it is in and the call's locals
    root_exists,      \* index in monitoring_paths -> the root is on disk
    engine            \* the standalone FIM_Engine and its baseline file

vars == <<fs, monitored_files, change_log, file_seq, log_seq, now, changes, last,
          is_monitoring, observer, threads, root_exists, engine>>

\* ------------------------------------------------------------- path helpers
dirname(p) == p[1]

\* The configured root a path lies under.
RootOf(p) == CHOOSE i \in 1..Len(monitoring_paths) : monitoring_paths[i] = dirname(p)

RECURSIVE SeqSum(_, _)
SeqSum(f, S) == IF S = {} THEN 0
                ELSE LET x == CHOOSE y \in S : TRUE IN f[x] + SeqSum(f, S \ {x})

TotalChanges == SeqSum(changes, Paths)

\* --------------------------------------------------------- probe (monitor)
\* os.path.exists: False when stat raises
exists(fsv, p) == fsv[p].present /\ fsv[p].kind # "denied"

\* Path.is_file raises what stat raises, unless the error says that the
\* path is not there.
stat_raises(fsv, p) == fsv[p].kind = "denied"

\* Path.is_file and os.path.isfile (both follow symbolic links),
\* os.path.islink, and FileSystemEvent.is_directory
is_file(fsv, p) == fsv[p].kind \in {"file", "link"}
islink(fsv, p) == fsv[p].kind = "link"
is_directory(fsv, p) == fsv[p].kind = "dir"

\* os.path.getsize of a present file: the size of its content
getsize(fsv, p) == IF fsv[p].hash = "h1" THEN 1 ELSE 2

\* FileMonitor.calculate_file_hash: the digest, or None on any exception
calculate_file_hash(fsv, p) ==
    IF fsv[p].present /\ fsv[p].readable THEN fsv[p].hash ELSE None

\* FileMonitor.should_monitor_file
skip_patterns == {".git", "__pycache__", ".pyc", ".tmp", ".log"}

should_monitor_file(p) ==
    /\ ~ \E i \in 1..Len(p) : p[i] \in excluded_patterns
    /\ ~ \E i \in 1..Len(p) : p[i] \in skip_patterns

\* ------------------------------------------------------ DatabaseManager
\* A database state is [files, log, seq, lseq, fail, now]: the two tables,
\* their AUTOINCREMENT counters, the methods whose statement raises
\* sqlite3.Error during this call (a locked database, a full disk), and the
\* clock the methods read with datetime.now().

\* DatabaseManager.connect never issues PRAGMA foreign_keys = ON, so SQLite
\* leaves the ON DELETE CASCADE of change_log.monitored_file_id unenforced.
foreign_keys == FALSE

\* DatabaseManager.get_file_info: SELECT ... WHERE file_path = ?; fetchone()
get_file_info(files, p) ==
    LET rows == {r \in files : r.file_path = p}
    IN  IF rows = {} THEN {} ELSE {CHOOSE r \in rows : TRUE}

\* The INSERT on a table whose id is a plain INTEGER PRIMARY KEY: the rowid
\* is one more than the largest rowid in the table (not the program's).
insert_file_rowid(st, p, checksum, file_size) ==
    LET ids == {r.id : r \in st.files}
        top == IF ids = {} THEN 0 ELSE CHOOSE m \in ids : \A x \in ids : x <= m
    IN  IF \E r \in st.files : r.file_path = p
        THEN st
        ELSE [st EXCEPT !.files = @ \cup {[id |-> top + 1, file_path |-> p,
                                            baseline_hash |-> checksum,
                                            baseline_size |-> file_size,
                                            status |-> "OK",
                                            last_scanned_time |-> st.now,
                                            created_at |-> st.now,
                                            updated_at |-> st.now]},
                        !.seq = @ + 1]

\* INSERT INTO monitored_files: file_path is UNIQUE (the statement raises and
\* the caller rolls back when the path has a row); id is AUTOINCREMENT.
insert_file(st, p, checksum, file_size) ==
    IF \E r \in st.files : r.file_path = p
    THEN st
    ELSE [st EXCEPT !.files = @ \cup {[id |-> st.seq + 1, file_path |-> p,
                                        baseline_hash |-> checksum,
                                        baseline_size |-> file_size,
                                        status |-> "OK",
                                        last_scanned_time |-> st.now,
                                        created_at |-> st.now,
                                        updated_at |-> st.now]},
                    !.seq = @ + 1]

\* update_file_info with an UPDATE that leaves baseline_hash out of its SET
update_file_info_stale(st, p, checksum, file_size) ==
    LET existing == get_file_info(st.files, p)
    IN  IF existing # {}
        THEN [st EXCEPT !.files =
                 {IF r.file_path = p
                  THEN [r EXCEPT !.baseline_size = file_size, !.status = "OK",
                                 !.last_scanned_time = st.now,
                                 !.updated_at = st.now]
                  ELSE r : r \in @}]
        ELSE insert_file(st, p, checksum, file_size)

\* update_file_info as a replacement of the row: DELETE, then INSERT
update_file_info_replace(st, p, checksum, file_size) ==
    insert_file([st EXCEPT !.files = {r \in @ : r.file_path # p}],
                p, checksum, file_size)

\* DatabaseManager.update_file_info: update the row of the path, or insert it
update_file_info(st, p, checksum, file_size) ==
    LET existing == get_file_info(st.files, p)
    IN  IF existing # {}
        THEN [st EXCEPT !.files =
                 {IF r.file_path = p
                  THEN [r EXCEPT !.baseline_hash = checksum,
                                 !.baseline_size = file_size,
                                 !.last_scanned_time = st.now,
                                 !.updated_at = st.now,
                                 !.status = "OK"]
                  ELSE r : r \in @}]
        ELSE insert_file(st, p, checksum, file_size)

\* remove_file_info that keeps the row and marks it MISSING
remove_file_info_missing(st, p) ==
    [st EXCEPT !.files = {IF r.file_path = p
                          THEN [r EXCEPT !.baseline_hash = None, !.status = "MISSING"]
                          ELSE r : r \in @}]

\* remove_file_info on a connection that enforces the foreign key: the
\* DELETE cascades to the events linked to the row
remove_file_info_cascade(st, p) ==
    LET gone == {r.id : r \in {x \in st.files : x.file_path = p}}
    IN  [st EXCEPT !.files = {r \in @ : r.file_path # p},
                   !.log = SelectSeq(@, LAMBDA e : e.monitored_file_id \cap gone = {})]

\* DatabaseManager.remove_file_info: DELETE FROM monitored_files WHERE path
remove_file_info(st, p) ==
    LET gone == {r.id : r \in {x \in st.files : x.file_path = p}}
    IN  [st EXCEPT !.files = {r \in @ : r.file_path # p},
                   !.log = IF foreign_keys
                           THEN SelectSeq(@, LAMBDA e : e.monitored_file_id \cap gone = {})
                           ELSE @]

\* DatabaseManager.record_event: INSERT INTO change_log, linked to the row
\* the path has at this moment ({} is a NULL monitored_file_id)
record_event(st, event_data) ==
    LET file_info == get_file_info(st.files, event_data.file_path)
    IN  IF "record_event" \in st.fail
        THEN st     \* except: logger.error; connection.rollback(); returns
        ELSE
        [st EXCEPT !.lseq = @ + 1, !.log = Append(@,
            [id |-> st.lseq + 1,
             monitored_file_id |-> {r.id : r \in file_info},
             file_path  |-> event_data.file_path,
             event_time |-> event_data.timestamp,
             event_type |-> event_data.event_type,
             old_hash   |-> event_data.old_hash,
             new_hash   |-> event_data.new_hash,
             file_size  |-> event_data.file_size])]

\* The retention job with the cutoff itself removed (not the program's).
cleanup_old_events_inclusive(st, t, days_to_keep) ==
    LET cutoff_time == t - (days_to_keep * SecondsPerDay)
    IN  [st EXCEPT !.log = SelectSeq(@, LAMBDA e : ~(e.event_time <= cutoff_time))]

\* DatabaseManager.cleanup_old_events: DELETE ... WHERE event_time < cutoff
cleanup_old_events(st, t, days_to_keep) ==
    LET cutoff_time == t - (days_to_keep * SecondsPerDay)
    IN  [st EXCEPT !.log = SelectSeq(@, LAMBDA e : ~(e.event_time < cutoff_time))]

\* The walk without the filter (not the program's).
accepted_by_scan_unfiltered(fsv, p) == is_file(fsv, p)

\* The monitorability decision at the three call sites: the walk of
\* scan_path, the triage of FIMEventHandler, the walk of initialize_baseline
\* (its should_monitor_file is init_should_monitor_file below).
accepted_by_scan(fsv, p) == is_file(fsv, p) /\ should_monitor_file(p)
accepted_by_notification(fsv, p) == ~is_directory(fsv, p) /\ should_monitor_file(p)

\* ---------------------------------------------------------- FileMonitor
\* The decision with the test of the created hint inverted
should_record_event_inverted(event_type, existing_info, old_hash, new_hash) ==
    CASE event_type = "deleted"  -> TRUE
      [] event_type = "created"  -> existing_info # {}
      [] event_type = "modified" -> old_hash # new_hash
      [] OTHER                   -> TRUE

\* The decision of handle_file_change whether to record an event
should_record_event(event_type, existing_info, old_hash, new_hash) ==
    CASE event_type = "deleted"  -> TRUE
      [] event_type = "created"  -> existing_info = {}
      [] event_type = "modified" -> old_hash # new_hash
      [] OTHER                   -> TRUE

\* What one call of handle_file_change or _process_file saw and did.
NoCall == [fn |-> "none", path |-> <<>>, hint |-> "none", monitored |-> FALSE,
           existing |-> {}, present |-> FALSE, new_hash |-> None,
           raised |-> FALSE, nrec |-> 0, lost |-> FALSE,
           ncalls |-> 0, nrec_op |-> 0, file_size |-> 0]

\* FileMonitor.handle_file_change.  vanish: the file is removed after
\* os.path.exists saw it, so os.path.getsize raises and the handler's
\* except clause ends the call.  The result is [st, call].
handle_file_change(st, fsv, p, event_type, t, vanish) ==
    LET probing == event_type # "deleted" /\ exists(fsv, p)
        raised == probing /\ vanish
        new_hash == IF probing /\ ~vanish THEN calculate_file_hash(fsv, p) ELSE None
        file_size == IF probing THEN getsize(fsv, p) ELSE 0
        existing_info == get_file_info(st.files, p)
        old_hash == IF existing_info = {} THEN None
                    ELSE (CHOOSE r \in existing_info : TRUE).baseline_hash
        record == should_record_event(event_type, existing_info, old_hash, new_hash)
        st1 == IF record
               THEN record_event(st, [file_path |-> p, event_type |-> event_type,
                                      timestamp |-> t, old_hash |-> old_hash,
                                      new_hash |-> new_hash, file_size |-> file_size])
               ELSE st
        st2 == IF event_type # "deleted"
               THEN update_file_info(st1, p, new_hash, file_size)
               ELSE remove_file_info(st1, p)
        call == [fn |-> "handle_file_change", path |-> p, hint |-> event_type,
                 monitored |-> should_monitor_file(p),
                 existing |-> existing_info, present |-> exists(fsv, p) /\ ~vanish,
                 new_hash |-> new_hash, raised |-> raised, nrec |-> 0,
                 lost |-> FALSE, ncalls |-> 1, nrec_op |-> 0,
                 file_size |-> file_size]
    IN  IF ~should_monitor_file(p) \/ raised
        THEN [st |-> st, call |-> call]
        ELSE [st |-> st2, call |-> [call EXCEPT !.nrec = st2.lseq - st.lseq,
                                                !.nrec_op = st2.lseq - st.lseq,
                                                !.lost = record /\ st1.lseq = st.lseq]]

\* _process_file on an unchanged file: UPDATE monitored_files SET
\* last_scanned_time = ?, updated_at = ? WHERE file_path = ?
update_scan_time(st, p) ==
    [st EXCEPT !.files = {IF r.file_path = p
                          THEN [r EXCEPT !.last_scanned_time = st.now,
                                         !.updated_at = st.now]
                          ELSE r : r \in @}]

\* FileMonitor._process_file
process_file(st, fsv, p, force_rescan, t) ==
    LET current_hash == calculate_file_hash(fsv, p)
        existing_info == get_file_info(st.files, p)
        stored_hash == (CHOOSE r \in existing_info : TRUE).baseline_hash
        st1 == IF current_hash = None THEN st
               ELSE IF existing_info = {} \/ force_rescan
                    THEN update_file_info(st, p, current_hash, getsize(fsv, p))
               ELSE IF stored_hash # current_hash
                    THEN handle_file_change(st, fsv, p, "modified", t, FALSE).st
               ELSE update_scan_time(st, p)
    IN  [st |-> st1,
         call |-> [fn |-> "_process_file", path |-> p,
                   hint |-> IF force_rescan THEN "force" ELSE "scan",
                   monitored |-> TRUE, existing |-> existing_info,
                   present |-> exists(fsv, p), new_hash |-> current_hash,
                   raised |-> FALSE, nrec |-> st1.lseq - st.lseq,
                   lost |-> FALSE, ncalls |-> 1,
                   nrec_op |-> st1.lseq - st.lseq,
                   file_size |-> IF current_hash = None THEN 0 ELSE getsize(fsv, p)]]

\* The paths rglob('*') yields under a root, and those the loop of scan_path
\* reaches: is_file() raising ends the loop in scan_path's except clause.
walk(root) == SelectSeq(WalkOrder, LAMBDA p : dirname(p) = root)

RECURSIVE until_raise(_, _)
until_raise(fsv, files) ==
    IF files = <<>> \/ stat_raises(fsv, Head(files)) THEN <<>>
    ELSE <<Head(files)>> \o until_raise(fsv, Tail(files))

\* The files a walk of a root yields that scan_path hands to _process_file:
\* path_obj.rglob('*') filtered by is_file() and should_monitor_file
scan_candidates(fsv, root) ==
    SelectSeq(until_raise(fsv, walk(root)), LAMBDA p : accepted_by_scan(fsv, p))

RECURSIVE process_files(_, _, _, _, _)
process_files(st, fsv, files, force_rescan, t) ==
    IF files = <<>> THEN st
    ELSE process_files(process_file(st, fsv, Head(files), force_rescan, t).st,
                       fsv, Tail(files), force_rescan, t)

\* FileMonitor.scan_path on a directory
scan_path(st, fsv, root, force_rescan, t) ==
    process_files(st, fsv, scan_candidates(fsv, root), force_rescan, t)

\* FileMonitor.scan_all_paths: scan_path on every configured root, in order
RECURSIVE scan_all_paths(_, _, _, _, _)
scan_all_paths(st, fsv, roots, force_rescan, t) ==
    IF roots = <<>> THEN st
    ELSE scan_all_paths(scan_path(st, fsv, Head(roots), force_rescan, t),
                        fsv, Tail(roots), force_rescan, t)

\* FIMEventHandler.on_moved: the calls of handle_file_change it makes.  The
\* call of the result is the last one made, with the number of calls made
\* (ncalls) and of events recorded for the destination (nrec_op).
on_moved(st, fsv, src_path, dest_path, t) ==
    LET c1 == handle_file_change(st, fsv, src_path, "deleted", t, FALSE)
        c2 == handle_file_change(c1.st, fsv, dest_path, "moved", t, FALSE)
        c3 == handle_file_change(c2.st, fsv, dest_path, "renamed", t, FALSE)
    IN  IF dirname(src_path) = dirname(dest_path)
        THEN [st |-> c3.st,
              call |-> [c3.call EXCEPT !.ncalls = 3,
                                       !.nrec_op = c2.call.nrec + c3.call.nrec]]
        ELSE [st |-> c2.st, call |-> [c2.call EXCEPT !.ncalls = 2]]

\* ------------------------------------------------ initialize_baseline.py
init_skip_patterns == {".git", "__pycache__", ".pyc", ".tmp", ".log",
                       ".cache", ".swap", "~", ".DS_Store", "Thumbs.db"}

\* initialize_baseline.should_monitor_file
init_should_monitor_file(fsv, p) ==
    /\ ~ \E i \in 1..Len(p) : p[i] \in init_skip_patterns
    /\ is_file(fsv, p) /\ ~islink(fsv, p)

\* _process_baseline_file that brings the row of a known file up to date
\* (not the program's).
process_baseline_file_refresh(st, fsv, p) ==
    LET file_hash == calculate_file_hash(fsv, p)
    IN  IF file_hash = None THEN st
        ELSE update_file_info(st, p, file_hash, getsize(fsv, p))

\* initialize_baseline._process_baseline_file
process_baseline_file(st, fsv, p) ==
    LET existing_info == get_file_info(st.files, p)
        file_hash == calculate_file_hash(fsv, p)
    IN  IF existing_info # {} THEN st
        ELSE IF file_hash = None THEN st
        ELSE insert_file(st, p, file_hash, getsize(fsv, p))

RECURSIVE baseline_files(_, _, _)
baseline_files(st, fsv, files) ==
    IF files = <<>> THEN st
    ELSE baseline_files(process_baseline_file(st, fsv, Head(files)), fsv, Tail(files))

\* initialize_baseline.initialize_baseline over the configured roots
initialize_baseline(st, fsv) ==
    baseline_files(st, fsv,
        SelectSeq(WalkOrder, LAMBDA p : (\E i \in 1..Len(monitoring_paths) :
                                            monitoring_paths[i] = dirname(p))
                                        /\ init_should_monitor_file(fsv, p)))

\* ------------------------------- the standalone engine (FIM_Engine, main.py)
\* BASE_DIR, and the files the engine is given: BASE_DIR / filename
project_root == "/data"
EngineFiles == {PathA, PathD}

\* os.path.relpath(file_path, start=project_root): the path below the start
\* directory, or the way up and down to it.
relpath(p, start) ==
    IF dirname(p) = start THEN SubSeq(p, 2, Len(p)) ELSE <<"..">> \o p

\* baseline_data: the dict rel_path -> hash; None is what dict.get gives for
\* a key the dict does not hold.
EngineKeys == {relpath(p, project_root) : p \in EngineFiles}
EmptyBaseline == [k \in EngineKeys |-> None]
Baselines == [EngineKeys -> Hashes \cup {None}]

\* The baseline file on disk: absent, or the JSON of a dict.
NoBaseline == [exists |-> FALSE, data |-> EmptyBaseline]
BaselineFiles == {NoBaseline} \cup [exists : {TRUE}, data : Baselines]

\* FIM_Engine._load_baseline: {} when the file is not there
load_baseline(file) == IF file.exists THEN file.data ELSE EmptyBaseline

\* FIM_Engine.__init__
FIM_Engine(file) == [baseline_data |-> load_baseline(file), baseline_file |-> file]

\* FIM_Engine._save_baseline: json.dump of baseline_data into the file;
\* an IOError of open (~can_write) is printed and the file stays as it is.
save_baseline(eng, can_write) ==
    IF can_write
    THEN [eng EXCEPT !.baseline_file = [exists |-> TRUE, data |-> eng.baseline_data]]
    ELSE eng

\* FIM_Engine.calculate_file_hash: None on FileNotFoundError and on IOError
engine_calculate_file_hash(fsv, p) ==
    IF fsv[p].present /\ fsv[p].readable /\ is_file(fsv, p) THEN fsv[p].hash ELSE None

\* The loop of create_or_update_baseline over files_to_baseline
RECURSIVE baseline_loop(_, _, _, _)
baseline_loop(acc, fsv, files, root) ==
    IF files = <<>> THEN acc
    ELSE LET rel_path == relpath(Head(files), root)
             new_hash == engine_calculate_file_hash(fsv, Head(files))
             existing_hash == acc.data[rel_path]
             set == [data |-> [acc.data EXCEPT ![rel_path] = new_hash],
                     update_count |-> acc.update_count + 1]
             step == IF new_hash # None
                     THEN IF existing_hash = None THEN set
                          ELSE IF existing_hash # new_hash THEN set
                          ELSE acc
                     ELSE acc
         IN  baseline_loop(step, fsv, Tail(files), root)

\* create_or_update_baseline that saves the baseline after every run (not
\* the program's).
create_or_update_baseline_saving(eng, fsv, files, root, can_write) ==
    LET r == baseline_loop([data |-> eng.baseline_data, update_count |-> 0],
                           fsv, files, root)
        eng1 == [eng EXCEPT !.baseline_data = r.data]
    IN  [eng |-> save_baseline(eng1, can_write),
         call |-> [fn |-> "create_or_update_baseline", files |-> files,
                   update_count |-> r.update_count, saved |-> TRUE,
                   hashed |-> files, report |-> <<>>]]

\* FIM_Engine.create_or_update_baseline.  The result is [eng, call]; saved:
\* _save_baseline was called.
create_or_update_baseline(eng, fsv, files, root, can_write) ==
    LET r == baseline_loop([data |-> eng.baseline_data, update_count |-> 0],
                           fsv, files, root)
        eng1 == [eng EXCEPT !.baseline_data = r.data]
    IN  [eng |-> IF r.update_count > 0 THEN save_baseline(eng1, can_write) ELSE eng1,
         call |-> [fn |-> "create_or_update_baseline", files |-> files,
                   update_count |-> r.update_count, saved |-> r.update_count > 0,
                   hashed |-> files, report |-> <<>>]]

\* The loop of check_integrity over files_to_check: the status printed for
\* each file, and the files whose content was hashed.
RECURSIVE check_loop(_, _, _, _)
check_loop(acc, fsv, files, root) ==
    IF files = <<>> THEN acc
    ELSE LET rel_path == relpath(Head(files), root)
             original_hash == acc.eng.baseline_data[rel_path]
             current_hash == engine_calculate_file_hash(fsv, Head(files))
             step == IF original_hash = None
                     THEN [acc EXCEPT !.report = Append(@, "not_in_baseline")]
                     ELSE IF current_hash = None
                     THEN [acc EXCEPT !.report = Append(@, "deleted"),
                                      !.hashed = Append(@, Head(files))]
                     ELSE IF original_hash = current_hash
                     THEN [acc EXCEPT !.report = Append(@, "safe"),
                                      !.hashed = Append(@, Head(files))]
                     ELSE [acc EXCEPT !.report = Append(@, "modified"),
                                      !.hashed = Append(@, Head(files))]
         IN  check_loop(step, fsv, Tail(files), root)

\* The loop of a check that takes a modified file into the baseline and
\* saves it (not the program's).
RECURSIVE check_loop_healing(_, _, _, _)
check_loop_healing(acc, fsv, files, root) ==
    IF files = <<>> THEN acc
    ELSE LET rel_path == relpath(Head(files), root)
             original_hash == acc.eng.baseline_data[rel_path]
             current_hash == engine_calculate_file_hash(fsv, Head(files))
             step == IF original_hash = None
                     THEN [acc EXCEPT !.report = Append(@, "not_in_baseline")]
                     ELSE IF current_hash = None
                     THEN [acc EXCEPT !.report = Append(@, "deleted"),
                                      !.hashed = Append(@, Head(files))]
                     ELSE IF original_hash = current_hash
                     THEN [acc EXCEPT !.report = Append(@, "safe"),
                                      !.hashed = Append(@, Head(files))]
                     ELSE [acc EXCEPT !.report = Append(@, "modified"),
                                      !.hashed = Append(@, Head(files)),
                                      !.eng = save_baseline(
                                          [@ EXCEPT !.baseline_data[rel_path] = current_hash],
                                          TRUE)]
         IN  check_loop_healing(step, fsv, Tail(files), root)

check_integrity_healing(eng, fsv, files, root) ==
    LET start == [eng |-> eng, report |-> <<>>, hashed |-> <<>>]
        r == IF eng.baseline_data = EmptyBaseline THEN start
             ELSE check_loop_healing(start, fsv, files, root)
    IN  [eng |-> r.eng,
         call |-> [fn |-> "check_integrity", files |-> files, update_count |-> 0,
                   saved |-> r.eng.baseline_file # eng.baseline_file,
                   hashed |-> r.hashed, report |-> r.report]]

\* FIM_Engine.check_integrity: returns before the loop "if not
\* self.baseline_data".  The result is [eng, call].
check_integrity(eng, fsv, files, root) ==
    LET start == [eng |-> eng, report |-> <<>>, hashed |-> <<>>]
        r == IF eng.baseline_data = EmptyBaseline THEN start
             ELSE check_loop(start, fsv, files, root)
    IN  [eng |-> r.eng,
         call |-> [fn |-> "check_integrity", files |-> files, update_count |-> 0,
                   saved |-> FALSE, hashed |-> r.hashed, report |-> r.report]]

\* ------------------------------------------------------------ the machine
db == [files |-> monitored_files, log |-> change_log, seq |-> file_seq,
       lseq |-> log_seq, fail |-> {}, now |-> now]

\* The database takes the state st, within the model's bounds.
Commit(st) ==
    /\ st.lseq <= MaxEvents
    /\ st.seq <= MaxRows
    /\ log_seq' = st.lseq
    /\ monitored_files' = st.files
    /\ change_log' = st.log
    /\ file_seq' = st.seq

Did(op, call) ==
    last' = [op |-> op, call |-> call,
             repeat |-> op = "scan_all_paths" /\ last.op = "scan_all_paths"]

\* FileMonitor.__init__: Observer() not started, nothing scheduled, every
\* thread outside the monitor's methods.
Threads == {"main", "observer"}

Idle == [pc |-> "idle", path |-> <<>>, hint |-> "none", new_hash |-> None,
         file_size |-> 0, existing |-> {}, record |-> FALSE, left |-> 0,
         scan |-> "none", todo |-> <<>>]

NewObserver == [state |-> "new", stopped |-> FALSE,
                handlers |-> [i \in 1..Len(monitoring_paths) |-> 0],
                handling_at_stop |-> FALSE, warned |-> FALSE]

InitMonitor ==
    /\ is_monitoring = FALSE
    /\ observer = NewObserver
    /\ threads = [th \in Threads |-> Idle]

\* Every configured root exists.
InitRoots == root_exists = [i \in 1..Len(monitoring_paths) |-> TRUE]

\* The standalone engine of a directory without a baseline file.
InitEngine == engine = FIM_Engine(NoBaseline)

\* The calls made while no thread is inside the monitor and the observer
\* and the roots are left alone.
Quiet == UNCHANGED <<is_monitoring, observer, threads, root_exists, engine>>

Init ==
    /\ fs \in [Paths -> FileStates]
    /\ \A p \in Paths \ Files : fs[p] = NoFile
    /\ monitored_files = {}
    /\ change_log = <<>>
    /\ file_seq = 0
    /\ log_seq = 0
    /\ now = 0
    /\ changes = [p \in Paths |-> 0]
    /\ last = [op |-> "init", call |-> NoCall, repeat |-> FALSE]
    /\ InitMonitor
    /\ InitEngine
    /\ InitRoots

\* History: one more change of the presence or of the content of a file.
Counted(p) ==
    /\ TotalChanges < MaxChanges
    /\ changes' = [changes EXCEPT ![p] = @ + 1]

\* The environment writes a file: creates it, or replaces its content.
WriteFile(p, h) ==
    /\ fs[p].hash # h
    /\ Counted(p)
    /\ fs[p].kind \in {"none", "file"}
    /\ root_exists[RootOf(p)]
    /\ fs' = [fs EXCEPT ![p] = [present |-> TRUE, hash |-> h, kind |-> "file",
                                readable |-> IF fs[p].present THEN fs[p].readable ELSE TRUE]]
    /\ Did("write", NoCall)
    /\ UNCHANGED <<monitored_files, change_log, file_seq, log_seq, now>>
    /\ Quiet

\* The environment removes a file.
DeleteFile(p) ==
    /\ fs[p].present
    /\ Counted(p)
    /\ fs' = [fs EXCEPT ![p] = NoFile]
    /\ Did("delete", NoCall)
    /\ UNCHANGED <<monitored_files, change_log, file_seq, log_seq, now>>
    /\ Quiet

\* The environment takes away or gives back the permission to read a file.
Chmod(p) ==
    /\ fs[p].kind = "file"
    /\ fs' = [fs EXCEPT ![p].readable = ~@]
    /\ Did("chmod", NoCall)
    /\ UNCHANGED <<monitored_files, change_log, file_seq, log_seq, now, changes>>
    /\ Quiet

\* The environment makes a symbolic link to a regular file with content h.
Symlink(p, h) ==
    /\ ~fs[p].present
    /\ root_exists[RootOf(p)]
    /\ Counted(p)
    /\ fs' = [fs EXCEPT ![p] = [present |-> TRUE, hash |-> h, readable |-> TRUE,
                                kind |-> "link"]]
    /\ Did("symlink", NoCall)
    /\ UNCHANGED <<monitored_files, change_log, file_seq, log_seq, now>>
    /\ Quiet

\* The environment makes a directory.
Mkdir(p) ==
    /\ ~fs[p].present
    /\ root_exists[RootOf(p)]
    /\ Counted(p)
    /\ fs' = [fs EXCEPT ![p] = Directory]
    /\ Did("mkdir", NoCall)
    /\ UNCHANGED <<monitored_files, change_log, file_seq, log_seq, now>>
    /\ Quiet

\* The clock advances.
Tick ==
    /\ now < MaxTime * SecondsPerDay
    /\ now' = now + SecondsPerDay
    /\ Did("tick", NoCall)
    /\ UNCHANGED <<fs, monitored_files, change_log, file_seq, log_seq, changes>>
    /\ Quiet

\* FIMEventHandler.on_created / on_modified / on_deleted: one notification
\* that is not of a directory, whatever the file system holds (the source is
\* not trusted).
Notify(p, event_type) ==
    /\ event_type \in {"created", "modified", "deleted"}
    /\ ~is_directory(fs, p)
    /\ LET c == handle_file_change(db, fs, p, event_type, now, FALSE)
       IN  Commit(c.st) /\ Did("notify", c.call)
    /\ UNCHANGED <<fs, now, changes>>
    /\ Quiet

\* The same, with the file removed while the handler probes it.
NotifyVanish(p, event_type) ==
    /\ event_type \in {"created", "modified"}
    /\ fs[p].present
    /\ ~is_directory(fs, p)
    /\ LET c == handle_file_change(db, fs, p, event_type, now, TRUE)
       IN  Commit(c.st) /\ Did("notify", c.call)
    /\ fs' = [fs EXCEPT ![p] = NoFile]
    /\ Counted(p)
    /\ UNCHANGED now
    /\ Quiet

\* One notification during which the INSERT of record_event raises.
NotifyStoreFailure(p, event_type) ==
    /\ event_type \in {"created", "modified", "deleted"}
    /\ ~is_directory(fs, p)
    /\ LET c == handle_file_change([db EXCEPT !.fail = {"record_event"}],
                                   fs, p, event_type, now, FALSE)
       IN  Commit(c.st) /\ Did("notify", c.call)
    /\ UNCHANGED <<fs, now, changes>>
    /\ Quiet

\* FIMEventHandler.on_moved
NotifyMoved(src_path, dest_path) ==
    /\ src_path # dest_path
    /\ ~is_directory(fs, dest_path)
    /\ LET c == on_moved(db, fs, src_path, dest_path, now)
       IN  Commit(c.st) /\ Did("on_moved", c.call)
    /\ UNCHANGED <<fs, now, changes>>
    /\ Quiet

\* perform_scan with one file path: scan_path on a file
ScanFile(p, force_rescan) ==
    /\ is_file(fs, p)
    /\ should_monitor_file(p)
    /\ LET c == process_file(db, fs, p, force_rescan, now)
       IN  Commit(c.st) /\ Did("scan_path", c.call)
    /\ UNCHANGED <<fs, now, changes>>
    /\ Quiet

\* perform_scan without paths: scan_all_paths
ScanAll(force_rescan) ==
    /\ Commit(scan_all_paths(db, fs, monitoring_paths, force_rescan, now))
    /\ Did("scan_all_paths", NoCall)
    /\ UNCHANGED <<fs, now, changes>>
    /\ Quiet

\* startup_event: initialize_baseline
InitializeBaseline ==
    /\ Commit(initialize_baseline(db, fs))
    /\ Did("initialize_baseline", NoCall)
    /\ UNCHANGED <<fs, now, changes>>
    /\ Quiet

\* DatabaseManager.update_file_info and remove_file_info, called directly
UpdateFileInfo(p, checksum, file_size) ==
    /\ Commit(update_file_info(db, p, checksum, file_size))
    /\ Did("update_file_info",
           [NoCall EXCEPT !.fn = "update_file_info", !.path = p,
                          !.existing = get_file_info(monitored_files, p),
                          !.new_hash = checksum, !.file_size = file_size])
    /\ UNCHANGED <<fs, now, changes>>
    /\ Quiet

RemoveFileInfo(p) ==
    /\ Commit(remove_file_info(db, p))
    /\ Did("remove_file_info",
           [NoCall EXCEPT !.fn = "remove_file_info", !.path = p,
                          !.existing = get_file_info(monitored_files, p)])
    /\ UNCHANGED <<fs, now, changes>>
    /\ Quiet

\* The retention job
Cleanup(days_to_keep) ==
    /\ Commit(cleanup_old_events(db, now, days_to_keep))
    /\ Did("cleanup_old_events",
           [fn |-> "cleanup_old_events", days_to_keep |-> days_to_keep])
    /\ UNCHANGED <<fs, now, changes>>
    /\ Quiet

\* The full machine: one file, notifications for three paths.
Next ==
    \/ \E p \in Files, h \in Hashes : WriteFile(p, h)
    \/ \E p \in Files : DeleteFile(p)
    \/ \E p \in Files : Chmod(p)
    \/ \E p \in Files, k \in {"created", "modified", "deleted"} : Notify(p, k)
    \/ \E p \in Files, k \in {"created", "modified"} : NotifyVanish(p, k)
    \/ \E s \in Paths, d \in Files : NotifyMoved(s, d)
    \/ \E p \in Files, f \in BOOLEAN : ScanFile(p, f)
    \/ \E f \in BOOLEAN : ScanAll(f)
    \/ InitializeBaseline

Spec == Init /\ [][Next]_vars

\* The machine of the single notifications and the single scan visits.
NextNotify ==
    \/ \E p \in Files, h \in Hashes : WriteFile(p, h)
    \/ \E p \in Files : DeleteFile(p)
    \/ \E p \in Files : Chmod(p)
    \/ \E p \in Files, k \in {"created", "modified", "deleted"} : Notify(p, k)
    \/ \E p \in Files, f \in BOOLEAN : ScanFile(p, f)

SpecNotify == Init /\ [][NextNotify]_vars

\* The machine with the clock and the retention job.
NextRetention ==
    \/ \E p \in Files : WriteFile(p, "h1")
    \/ \E p \in Files : DeleteFile(p)
    \/ \E p \in Files, k \in {"created", "modified", "deleted"} : Notify(p, k)
    \/ \E s \in Paths, d \in Files : NotifyMoved(s, d)
    \/ Tick
    \/ \E d \in 0..1 : Cleanup(d)

SpecRetention == Init /\ [][NextRetention]_vars

\* The machine of the scans: two files, the second with one content.
InitScan ==
    /\ fs \in [Paths -> FileStates]
    /\ \A p \in Paths \ ScanFiles : fs[p] = NoFile
    /\ fs[PathB].hash # "h2"
    /\ monitored_files = {}
    /\ change_log = <<>>
    /\ file_seq = 0
    /\ log_seq = 0
    /\ now = 0
    /\ changes = [p \in Paths |-> 0]
    /\ last = [op |-> "init", call |-> NoCall, repeat |-> FALSE]
    /\ InitMonitor
    /\ InitEngine
    /\ InitRoots

NextScan ==
    \/ \E h \in Hashes : WriteFile(PathA, h)
    \/ WriteFile(PathB, "h1")
    \/ \E p \in ScanFiles : DeleteFile(p)
    \/ \E p \in ScanFiles : Chmod(p)
    \/ Notify(PathB, "created")
    \/ \E p \in ScanFiles, f \in BOOLEAN : ScanFile(p, f)
    \/ \E f \in BOOLEAN : ScanAll(f)
    \/ InitializeBaseline

SpecScan == InitScan /\ [][NextScan]_vars

\* The machine of the notifications with a store that can fail.
NextFaults ==
    \/ \E p \in Files, h \in Hashes : WriteFile(p, h)
    \/ \E p \in Files : DeleteFile(p)
    \/ \E p \in Files, k \in {"created", "modified", "deleted"} : Notify(p, k)
    \/ \E p \in Files, k \in {"created", "modified", "deleted"} :
          NotifyStoreFailure(p, k)

SpecFaults == Init /\ [][NextFaults]_vars

\* The machine of the path filters: regular files, symbolic links and
\* directories at a monitored and at an excluded path.
KindFiles == {PathA, PathC}

InitKinds ==
    /\ fs \in [Paths -> FileStates \cup LinkStates \cup {Directory}]
    /\ \A p \in Paths \ KindFiles : fs[p] = NoFile
    /\ \A p \in KindFiles : fs[p].present => fs[p].readable \/ fs[p].kind = "dir"
    /\ monitored_files = {}
    /\ change_log = <<>>
    /\ file_seq = 0
    /\ log_seq = 0
    /\ now = 0
    /\ changes = [p \in Paths |-> 0]
    /\ last = [op |-> "init", call |-> NoCall, repeat |-> FALSE]
    /\ InitMonitor
    /\ InitEngine
    /\ InitRoots

NextKinds ==
    \/ \E p \in KindFiles, h \in Hashes : WriteFile(p, h)
    \/ \E p \in KindFiles : DeleteFile(p)
    \/ \E p \in KindFiles, h \in Hashes : Symlink(p, h)
    \/ \E p \in KindFiles : Mkdir(p)
    \/ \E p \in KindFiles, k \in {"created", "modified", "deleted"} : Notify(p, k)
    \/ \E p \in KindFiles : ScanFile(p, FALSE)
    \/ ScanAll(FALSE)
    \/ InitializeBaseline

SpecKinds == InitKinds /\ [][NextKinds]_vars

\* The machine of the baseline store: its methods called on two paths, with
\* any hash (None included) and size, while the clock advances.
StorePaths == {PathA, PathB}
Sizes == 1..2

NextStore ==
    \/ \E p \in StorePaths, h \in Hashes \cup {None}, n \in Sizes :
          UpdateFileInfo(p, h, n)
    \/ \E p \in StorePaths : RemoveFileInfo(p)
    \/ Tick

InitStore == Init /\ \A p \in Paths : fs[p] = NoFile

SpecStore == InitStore /\ [][NextStore]_vars

\* ------------------------------------------- live monitoring and its threads
\* DatabaseManager.connect opens the connection with sqlite3.connect(path,
\* timeout=...), so check_same_thread keeps its default: only the thread that
\* connected may use the connection, any other gets sqlite3.ProgrammingError
\* from cursor(), commit() and rollback().  startup_event connects on the
\* event-loop thread, the thread perform_scan runs on as well.
\* Notify and the other whole-call actions above are calls made on that
\* thread, where the store answers; the steps below tell the threads apart.
check_same_thread == TRUE
connecting_thread == "main"
may_use_connection(th) == ~check_same_thread \/ th = connecting_thread

\* DatabaseManager.get_file_info as the thread th gets it: its except clause
\* turns the refusal into None.
get_file_info_on(th, files, p) ==
    IF may_use_connection(th) THEN get_file_info(files, p) ELSE {}

\* What a step of a thread reports.
StepCall(th, fn, p) ==
    [fn |-> fn, thread |-> th, path |-> p, existing |-> {}, raised |-> FALSE,
     ncalls |-> 0, was_monitoring |-> FALSE]

\* FileMonitor.start_monitoring without its first test (not the program's).
start_monitoring_unguarded(monitoring, obs, existing) ==
    LET scheduled == [obs EXCEPT !.handlers =
                         [i \in DOMAIN @ |-> IF existing[i] THEN @[i] + 1 ELSE @[i]]]
    IN  IF obs.state = "new"
        THEN [is_monitoring |-> TRUE, raised |-> FALSE,
              observer |-> [scheduled EXCEPT !.state = "alive"]]
        ELSE [is_monitoring |-> monitoring, raised |-> TRUE, observer |-> scheduled]

\* FileMonitor.start_monitoring: nothing while is_monitoring; otherwise one
\* more FIMEventHandler is scheduled on every root that exists (a warning
\* for the others) and the observer thread is started, which a thread
\* allows once (RuntimeError afterwards, logged and raised again).
start_monitoring(monitoring, obs, existing) ==
    LET scheduled == [obs EXCEPT !.handlers =
                         [i \in DOMAIN @ |-> IF existing[i] THEN @[i] + 1 ELSE @[i]]]
    IN  IF monitoring
        THEN [is_monitoring |-> TRUE, raised |-> FALSE,
              observer |-> [obs EXCEPT !.warned = TRUE]]
        ELSE IF obs.state = "new"
        THEN [is_monitoring |-> TRUE, raised |-> FALSE,
              observer |-> [scheduled EXCEPT !.state = "alive"]]
        ELSE [is_monitoring |-> FALSE, raised |-> TRUE, observer |-> scheduled]

\* observer.join() without waiting (not the program's).
join_returns_at_once(obs) == TRUE

\* observer.join() returns when the observer thread has ended.
join_returns(obs) == obs.state = "dead"

StartMonitoring ==
    LET r == start_monitoring(is_monitoring, observer, root_exists)
    IN  /\ threads["main"].pc = "idle"
        /\ \A i \in DOMAIN r.observer.handlers : r.observer.handlers[i] <= MaxHandlers
        /\ is_monitoring' = r.is_monitoring
        /\ observer' = r.observer
        /\ Did("start_monitoring",
               [StepCall("main", "start_monitoring", <<>>)
                   EXCEPT !.raised = r.raised, !.was_monitoring = is_monitoring])
        /\ UNCHANGED <<engine, root_exists, fs, monitored_files, change_log, file_seq, log_seq, now,
                       changes, threads>>

\* stop_monitoring up to observer.join(): a live observer is told to stop,
\* which unschedules its handlers; one that is not alive is left alone and
\* the call ends.
StopMonitoring ==
    /\ threads["main"].pc = "idle"
    /\ IF observer.state = "alive"
       THEN /\ observer' = [observer EXCEPT
                   !.stopped = TRUE,
                   !.handlers = [i \in DOMAIN @ |-> 0],
                   !.handling_at_stop = threads["observer"].pc # "idle"]
            /\ threads' = [threads EXCEPT !["main"].pc = "join"]
            /\ UNCHANGED is_monitoring
       ELSE /\ is_monitoring' = FALSE
            /\ UNCHANGED <<observer, threads>>
    /\ Did("stop_monitoring", StepCall("main", "stop_monitoring", <<>>))
    /\ UNCHANGED <<engine, root_exists, fs, monitored_files, change_log, file_seq, log_seq, now, changes>>

\* stop_monitoring from observer.join() to its return
StopJoined ==
    /\ threads["main"].pc = "join"
    /\ join_returns(observer)
    /\ is_monitoring' = FALSE
    /\ threads' = [threads EXCEPT !["main"] = Idle]
    /\ Did("stop_monitoring_returns", StepCall("main", "stop_monitoring", <<>>))
    /\ UNCHANGED <<engine, root_exists, fs, monitored_files, change_log, file_seq, log_seq, now,
                   changes, observer>>

\* The observer thread, told to stop, ends once the dispatch it is in is over.
ObserverExit ==
    /\ observer.state = "alive"
    /\ observer.stopped
    /\ threads["observer"].pc = "idle"
    /\ observer' = [observer EXCEPT !.state = "dead"]
    /\ Did("observer_exit", StepCall("observer", "run", <<>>))
    /\ UNCHANGED <<engine, root_exists, fs, monitored_files, change_log, file_seq, log_seq, now,
                   changes, is_monitoring, threads>>

\* The call of a thread is over: the observer thread goes on to the next
\* handler scheduled for the notification, the event-loop thread goes back
\* to the walk of the scan it is in, or is free.
Finished(th) ==
    IF threads[th].left > 1
    THEN [threads EXCEPT ![th] = [Idle EXCEPT !.pc = "hfc_probe",
                                             !.path = threads[th].path,
                                             !.hint = threads[th].hint,
                                             !.left = threads[th].left - 1]]
    ELSE IF threads[th].scan # "none"
    THEN [threads EXCEPT ![th] = [Idle EXCEPT !.pc = "scan",
                                             !.scan = threads[th].scan,
                                             !.todo = threads[th].todo]]
    ELSE [threads EXCEPT ![th] = Idle]

\* The observer thread takes a notification for p off its queue and calls
\* on_created, on_modified or on_deleted of every handler scheduled for the
\* root; each calls handle_file_change, which returns at once for a path
\* should_monitor_file rejects.
Dispatch(p, event_type) ==
    /\ observer.state = "alive"
    /\ ~observer.stopped
    /\ threads["observer"].pc = "idle"
    /\ observer.handlers[RootOf(p)] > 0
    /\ ~is_directory(fs, p)
    /\ threads' = IF should_monitor_file(p)
                  THEN [threads EXCEPT !["observer"] =
                           [Idle EXCEPT !.pc = "hfc_probe", !.path = p,
                                        !.hint = event_type,
                                        !.left = observer.handlers[RootOf(p)]]]
                  ELSE threads
    /\ Did("dispatch", [StepCall("observer", "dispatch", p)
                           EXCEPT !.ncalls = observer.handlers[RootOf(p)]])
    /\ UNCHANGED <<engine, root_exists, fs, monitored_files, change_log, file_seq, log_seq, now,
                   changes, is_monitoring, observer>>

\* handle_file_change, lines 130-135: the file is probed
HfcProbe(th) ==
    LET my == threads[th]
        probing == my.hint # "deleted" /\ exists(fs, my.path)
    IN  /\ my.pc = "hfc_probe"
        /\ threads' = [threads EXCEPT ![th] =
               [my EXCEPT !.pc = "hfc_lookup",
                          !.new_hash = IF probing THEN calculate_file_hash(fs, my.path)
                                       ELSE None,
                          !.file_size = IF probing THEN getsize(fs, my.path) ELSE 0]]
        /\ Did("hfc_probe", StepCall(th, "handle_file_change", my.path))
        /\ UNCHANGED <<engine, root_exists, fs, monitored_files, change_log, file_seq, log_seq, now,
                       changes, is_monitoring, observer>>

\* handle_file_change, lines 138-152: the baseline is read and the event
\* decided
HfcLookup(th) ==
    LET my == threads[th]
        existing_info == get_file_info_on(th, monitored_files, my.path)
        old_hash == IF existing_info = {} THEN None
                    ELSE (CHOOSE r \in existing_info : TRUE).baseline_hash
    IN  /\ my.pc = "hfc_lookup"
        /\ threads' = [threads EXCEPT ![th] =
               [my EXCEPT !.pc = "hfc_record",
                          !.existing = existing_info,
                          !.record = should_record_event(my.hint, existing_info,
                                                         old_hash, my.new_hash)]]
        /\ Did("get_file_info", [StepCall(th, "get_file_info", my.path)
                                    EXCEPT !.existing = existing_info])
        /\ UNCHANGED <<engine, root_exists, fs, monitored_files, change_log, file_seq, log_seq, now,
                       changes, is_monitoring, observer>>

\* handle_file_change, lines 154-167: the event is recorded.  On a thread the
\* connection refuses, record_event's own except clause calls rollback(),
\* which raises again, and the handler's except clause ends the call.
HfcRecord(th) ==
    LET my == threads[th]
        old_hash == IF my.existing = {} THEN None
                    ELSE (CHOOSE r \in my.existing : TRUE).baseline_hash
        raised == my.record /\ ~may_use_connection(th)
    IN  /\ my.pc = "hfc_record"
        /\ IF my.record /\ ~raised
           THEN Commit(record_event(db, [file_path |-> my.path,
                                         event_type |-> my.hint, timestamp |-> now,
                                         old_hash |-> old_hash,
                                         new_hash |-> my.new_hash,
                                         file_size |-> my.file_size]))
           ELSE UNCHANGED <<monitored_files, change_log, file_seq, log_seq>>
        /\ threads' = IF raised THEN Finished(th)
                      ELSE [threads EXCEPT ![th].pc = "hfc_write"]
        /\ Did("hfc_record", [StepCall(th, "handle_file_change", my.path)
                                 EXCEPT !.raised = raised])
        /\ UNCHANGED <<engine, root_exists, fs, now, changes, is_monitoring, observer>>

\* handle_file_change, lines 169-173: the baseline is written
HfcWrite(th) ==
    LET my == threads[th]
        raised == ~may_use_connection(th)
    IN  /\ my.pc = "hfc_write"
        /\ IF raised
           THEN UNCHANGED <<monitored_files, change_log, file_seq, log_seq>>
           ELSE Commit(IF my.hint # "deleted"
                       THEN update_file_info(db, my.path, my.new_hash, my.file_size)
                       ELSE remove_file_info(db, my.path))
        /\ threads' = Finished(th)
        /\ Did("hfc_write", [StepCall(th, "handle_file_change", my.path)
                                EXCEPT !.raised = raised])
        /\ UNCHANGED <<engine, root_exists, fs, now, changes, is_monitoring, observer>>

\* perform_scan reaches _process_file for p (scan_path hands it the files
\* is_file and should_monitor_file accept), lines 218-222: the file is
\* hashed, and the call ends if it cannot be read.
PfBegin(p, force_rescan) ==
    /\ threads["main"].pc = "idle"
    /\ accepted_by_scan(fs, p)
    /\ threads' = IF calculate_file_hash(fs, p) = None THEN threads
                  ELSE [threads EXCEPT !["main"] =
                           [Idle EXCEPT !.pc = "pf_lookup", !.path = p,
                                        !.hint = IF force_rescan THEN "force" ELSE "scan",
                                        !.new_hash = calculate_file_hash(fs, p)]]
    /\ Did("pf_begin", StepCall("main", "_process_file", p))
    /\ UNCHANGED <<engine, root_exists, fs, monitored_files, change_log, file_seq, log_seq, now,
                   changes, is_monitoring, observer>>

\* _process_file, lines 225-244: the baseline is read and the branch chosen
PfLookup ==
    LET my == threads["main"]
        existing_info == get_file_info_on("main", monitored_files, my.path)
        stored_hash == (CHOOSE r \in existing_info : TRUE).baseline_hash
    IN  /\ my.pc = "pf_lookup"
        /\ threads' = [threads EXCEPT !["main"] =
               IF existing_info = {} \/ my.hint = "force"
               THEN [my EXCEPT !.pc = "pf_write", !.existing = existing_info]
               ELSE IF stored_hash # my.new_hash
               THEN [Idle EXCEPT !.pc = "hfc_probe", !.path = my.path,
                                 !.hint = "modified", !.scan = my.scan,
                                 !.todo = my.todo]
               ELSE [my EXCEPT !.pc = "pf_touch", !.existing = existing_info]]
        /\ Did("get_file_info", [StepCall("main", "get_file_info", my.path)
                                    EXCEPT !.existing = existing_info])
        /\ UNCHANGED <<engine, root_exists, fs, monitored_files, change_log, file_seq, log_seq, now,
                       changes, is_monitoring, observer>>

\* _process_file, lines 229-230 and 234-235: os.path.getsize, which raises
\* if the file has gone, then update_file_info
PfWrite ==
    LET my == threads["main"]
    IN  /\ my.pc = "pf_write"
        /\ IF exists(fs, my.path)
           THEN Commit(update_file_info(db, my.path, my.new_hash, getsize(fs, my.path)))
           ELSE UNCHANGED <<monitored_files, change_log, file_seq, log_seq>>
        /\ threads' = Finished("main")
        /\ Did("pf_write", [StepCall("main", "_process_file", my.path)
                               EXCEPT !.raised = ~exists(fs, my.path)])
        /\ UNCHANGED <<engine, root_exists, fs, now, changes, is_monitoring, observer>>

\* _process_file, lines 246-256: the scan time of an unchanged file
PfTouch ==
    LET my == threads["main"]
    IN  /\ my.pc = "pf_touch"
        /\ Commit(update_scan_time(db, my.path))
        /\ threads' = Finished("main")
        /\ Did("pf_touch", StepCall("main", "_process_file", my.path))
        /\ UNCHANGED <<engine, root_exists, fs, now, changes, is_monitoring, observer>>

\* The machine of live monitoring: the event-loop thread starts and stops
\* monitoring and scans, the observer thread handles notifications, a step
\* at a time, while the file changes.
NextMonitor ==
    \/ \E p \in Files, h \in Hashes : WriteFile(p, h)
    \/ \E p \in Files : DeleteFile(p)
    \/ StartMonitoring
    \/ StopMonitoring
    \/ StopJoined
    \/ ObserverExit
    \/ \E p \in KindFiles, k \in {"created", "modified", "deleted"} : Dispatch(p, k)
    \/ \E th \in Threads : HfcProbe(th)
    \/ \E th \in Threads : HfcLookup(th)
    \/ \E th \in Threads : HfcRecord(th)
    \/ \E th \in Threads : HfcWrite(th)
    \/ \E p \in Files, force_rescan \in BOOLEAN : PfBegin(p, force_rescan)
    \/ PfLookup
    \/ PfWrite
    \/ PfTouch

SpecMonitor == Init /\ [][NextMonitor]_vars

\* The paths the walks of scan_all_paths yield, root after root.
RECURSIVE walk_all(_)
walk_all(root_list) ==
    IF root_list = <<>> THEN <<>>
    ELSE walk(Head(root_list)) \o walk_all(Tail(root_list))

\* The walk that stays at the root whose walk has raised (not the
\* program's).
retry_root(todo, root) == todo

\* scan_path's except clause: the rest of the walk of the root is given up.
skip_root(todo, root) == SelectSeq(todo, LAMBDA q : dirname(q) # root)

\* perform_scan calls scan_all_paths on the event-loop thread.
ScanStart(force_rescan) ==
    /\ threads["main"].pc = "idle"
    /\ threads' = [threads EXCEPT !["main"] =
           [Idle EXCEPT !.pc = "scan",
                        !.scan = IF force_rescan THEN "force" ELSE "scan",
                        !.todo = walk_all(monitoring_paths)]]
    /\ Did("scan_start", StepCall("main", "scan_all_paths", <<>>))
    /\ UNCHANGED <<engine, root_exists, fs, monitored_files, change_log, file_seq, log_seq, now,
                   changes, is_monitoring, observer>>

\* One turn of the loops of scan_all_paths and scan_path: the scan is over
\* when the walks are; a root that is missing is left out; is_file()
\* raising gives up the rest of the root; a file that is_file and
\* should_monitor_file accept goes to _process_file, lines 218-222, which
\* hashes it and returns if that fails.
ScanStep ==
    LET my == threads["main"]
        p == Head(my.todo)
        current_hash == calculate_file_hash(fs, p)
    IN  /\ my.pc = "scan"
        /\ threads' = [threads EXCEPT !["main"] =
               IF my.todo = <<>> THEN Idle
               ELSE IF ~root_exists[RootOf(p)] \/ stat_raises(fs, p)
               THEN [my EXCEPT !.todo = skip_root(my.todo, dirname(p))]
               ELSE IF accepted_by_scan(fs, p) /\ current_hash # None
               THEN [my EXCEPT !.pc = "pf_lookup", !.path = p, !.hint = my.scan,
                               !.new_hash = current_hash, !.todo = Tail(my.todo)]
               ELSE [my EXCEPT !.todo = Tail(my.todo)]]
        /\ Did(IF my.todo = <<>> THEN "scan_done" ELSE "scan_step",
               IF my.todo = <<>> THEN StepCall("main", "scan_all_paths", <<>>)
               ELSE [StepCall("main", "scan_path", p)
                        EXCEPT !.raised = root_exists[RootOf(p)] /\ stat_raises(fs, p)])
        /\ UNCHANGED <<engine, root_exists, fs, monitored_files, change_log, file_seq, log_seq, now,
                       changes, is_monitoring, observer>>

\* The event-loop thread takes its next step.
MainStep ==
    \/ ScanStep
    \/ PfLookup
    \/ PfWrite
    \/ PfTouch
    \/ HfcProbe("main")
    \/ HfcLookup("main")
    \/ HfcRecord("main")
    \/ HfcWrite("main")

\* The machine of the full scans run a step at a time, with live monitoring
\* started and stopped and notifications handled meanwhile.  Two files under
\* one root, the first unreadable or out of reach of stat in some initial
\* states, and roots that are missing.
ScanningFiles == {PathA, PathD}

InitScanning ==
    /\ fs \in [Paths -> FileStates \cup DeniedStates]
    /\ \A p \in Paths \ ScanningFiles : fs[p] = NoFile
    /\ fs[PathA].hash # "h2"
    /\ fs[PathD] \in {NoFile, [present |-> TRUE, hash |-> "h1", readable |-> TRUE,
                               kind |-> "file"]}
    /\ root_exists \in [1..Len(monitoring_paths) -> BOOLEAN]
    /\ \A p \in Paths : fs[p].present => root_exists[RootOf(p)]
    /\ monitored_files = {}
    /\ change_log = <<>>
    /\ file_seq = 0
    /\ log_seq = 0
    /\ now = 0
    /\ changes = [p \in Paths |-> 0]
    /\ last = [op |-> "init", call |-> NoCall, repeat |-> FALSE]
    /\ InitMonitor
    /\ InitEngine

NextScanning ==
    \/ \E h \in Hashes : WriteFile(PathD, h)
    \/ StartMonitoring
    \/ StopMonitoring
    \/ StopJoined
    \/ ObserverExit
    \/ Dispatch(PathD, "modified")
    \/ \E th \in Threads : HfcProbe(th)
    \/ \E th \in Threads : HfcLookup(th)
    \/ \E th \in Threads : HfcRecord(th)
    \/ \E th \in Threads : HfcWrite(th)
    \/ \E force_rescan \in BOOLEAN : ScanStart(force_rescan)
    \/ ScanStep
    \/ PfLookup
    \/ PfWrite
    \/ PfTouch

\* The event loop runs the scan it has started: perform_scan has no await,
\* so no other coroutine comes between its steps, and the thread is
\* scheduled.
SpecScanning == InitScanning /\ [][NextScanning]_vars /\ WF_vars(MainStep)

\* The machine of live monitoring with roots that are missing from the
\* start: no file lies under a missing root.
InitRoots2 ==
    /\ fs \in [Paths -> FileStates]
    /\ \A p \in Paths \ Files : fs[p] = NoFile
    /\ root_exists \in [1..Len(monitoring_paths) -> BOOLEAN]
    /\ \A p \in Paths : fs[p].present => root_exists[RootOf(p)]
    /\ monitored_files = {}
    /\ change_log = <<>>
    /\ file_seq = 0
    /\ log_seq = 0
    /\ now = 0
    /\ changes = [p \in Paths |-> 0]
    /\ last = [op |-> "init", call |-> NoCall, repeat |-> FALSE]
    /\ InitMonitor
    /\ InitEngine

SpecRoots == InitRoots2 /\ [][NextMonitor]_vars

\* The machine of the filter: a path the filter accepts and one it rejects,
\* each with a readable file of one content or none, notified, scanned and
\* taken into the baseline at start-up.
InitFilter ==
    /\ fs \in [Paths -> {NoFile, [present |-> TRUE, hash |-> "h1", readable |-> TRUE,
                                  kind |-> "file"]}]
    /\ \A p \in Paths \ KindFiles : fs[p] = NoFile
    /\ monitored_files = {}
    /\ change_log = <<>>
    /\ file_seq = 0
    /\ log_seq = 0
    /\ now = 0
    /\ changes = [p \in Paths |-> 0]
    /\ last = [op |-> "init", call |-> NoCall, repeat |-> FALSE]
    /\ InitMonitor
    /\ InitEngine
    /\ InitRoots

NextFilter ==
    \/ \E p \in KindFiles : WriteFile(p, "h1")
    \/ \E p \in KindFiles : DeleteFile(p)
    \/ \E p \in KindFiles, k \in {"created", "modified", "deleted"} : Notify(p, k)
    \/ \E f \in BOOLEAN : ScanAll(f)
    \/ InitializeBaseline

SpecFilter == InitFilter /\ [][NextFilter]_vars

\* The machine of the links between the trail and the baseline: two files
\* in scope, each with one content or none, notified and taken into the
\* baseline at start-up, so that rows come and go while events refer to them.
LinkFiles == {PathA, PathD}

InitLinks ==
    /\ fs \in [Paths -> {NoFile, [present |-> TRUE, hash |-> "h1", readable |-> TRUE,
                                  kind |-> "file"]}]
    /\ \A p \in Paths \ LinkFiles : fs[p] = NoFile
    /\ monitored_files = {}
    /\ change_log = <<>>
    /\ file_seq = 0
    /\ log_seq = 0
    /\ now = 0
    /\ changes = [p \in Paths |-> 0]
    /\ last = [op |-> "init", call |-> NoCall, repeat |-> FALSE]
    /\ InitMonitor
    /\ InitEngine
    /\ InitRoots

NextLinks ==
    \/ \E p \in LinkFiles : WriteFile(p, "h1")
    \/ \E p \in LinkFiles : DeleteFile(p)
    \/ \E p \in LinkFiles, k \in {"created", "deleted"} : Notify(p, k)
    \/ InitializeBaseline

SpecLinks == InitLinks /\ [][NextLinks]_vars

\* The machine of the scans over files that fail: three files in scope, two
\* of them under the same root, each unreadable or out of reach of stat in
\* some initial states.
FaultFiles == {PathA, PathD, PathB}

InitScanFaults ==
    /\ fs \in [Paths -> FileStates \cup DeniedStates]
    /\ \A p \in Paths \ FaultFiles : fs[p] = NoFile
    /\ \A p \in {PathD, PathB} : fs[p].hash # "h2"
    /\ monitored_files = {}
    /\ change_log = <<>>
    /\ file_seq = 0
    /\ log_seq = 0
    /\ now = 0
    /\ changes = [p \in Paths |-> 0]
    /\ last = [op |-> "init", call |-> NoCall, repeat |-> FALSE]
    /\ InitMonitor
    /\ InitEngine
    /\ InitRoots

NextScanFaults ==
    \/ \E h \in Hashes : WriteFile(PathA, h)
    \/ \E p \in FaultFiles : Chmod(p)
    \/ Tick
    \/ \E f \in BOOLEAN : ScanAll(f)

SpecScanFaults == InitScanFaults /\ [][NextScanFaults]_vars

\* ------------------------------------------- the standalone engine's runs
\* python main.py baseline: create_or_update_baseline on a list of files
CreateOrUpdateBaseline(files, can_write) ==
    /\ LET c == create_or_update_baseline(engine, fs, files, project_root, can_write)
       IN  engine' = c.eng /\ Did("create_or_update_baseline", c.call)
    /\ UNCHANGED <<fs, monitored_files, change_log, file_seq, log_seq, now, changes,
                   is_monitoring, observer, threads, root_exists>>

\* python main.py check: check_integrity on a list of files
CheckIntegrity(files) ==
    /\ LET c == check_integrity(engine, fs, files, project_root)
       IN  engine' = c.eng /\ Did("check_integrity", c.call)
    /\ UNCHANGED <<fs, monitored_files, change_log, file_seq, log_seq, now, changes,
                   is_monitoring, observer, threads, root_exists>>

\* The next run of main.py: a new FIM_Engine, loaded from the baseline file
NewEngine ==
    /\ engine' = FIM_Engine(engine.baseline_file)
    /\ Did("FIM_Engine", NoCall)
    /\ UNCHANGED <<fs, monitored_files, change_log, file_seq, log_seq, now, changes,
                   is_monitoring, observer, threads, root_exists>>

\* The lists of files a run is given: up to two files, repeats included.
FileLists == {<<>>} \cup {<<p>> : p \in EngineFiles}
             \cup {<<p, q>> : p \in EngineFiles, q \in EngineFiles}

InitStandalone ==
    /\ fs \in [Paths -> FileStates]
    /\ \A p \in Paths \ EngineFiles : fs[p] = NoFile
    /\ monitored_files = {}
    /\ change_log = <<>>
    /\ file_seq = 0
    /\ log_seq = 0
    /\ now = 0
    /\ changes = [p \in Paths |-> 0]
    /\ last = [op |-> "init", call |-> NoCall, repeat |-> FALSE]
    /\ is_monitoring = FALSE
    /\ observer = NewObserver
    /\ threads = [th \in Threads |-> Idle]
    /\ InitRoots
    /\ engine \in {FIM_Engine(file) : file \in BaselineFiles}

NextEngine ==
    \/ \E p \in EngineFiles, h \in Hashes : WriteFile(p, h)
    \/ \E p \in EngineFiles : DeleteFile(p)
    \/ \E p \in EngineFiles : Chmod(p)
    \/ \E files \in FileLists, can_write \in BOOLEAN :
          CreateOrUpdateBaseline(files, can_write)
    \/ \E files \in FileLists : CheckIntegrity(files)
    \/ NewEngine

SpecEngine == InitStandalone /\ [][NextEngine]_vars

\* ================================================================ claims
\* The call the last operation made, the row it found and the row and the
\* event it left.
TheCall == last.call
IsReconciliation ==
    /\ TheCall.fn \in {"handle_file_change", "_process_file"}
    /\ TheCall.monitored
    /\ ~TheCall.raised
FoundRow == CHOOSE r \in TheCall.existing : TRUE
RowNow == get_file_info(monitored_files, TheCall.path)
LastEvent == change_log[Len(change_log)]
EventsOf(p) == {i \in 1..Len(change_log) : change_log[i].file_path = p}
\* The entries without their timestamps.
Baseline(files) ==
    {[id |-> r.id, file_path |-> r.file_path, baseline_hash |-> r.baseline_hash,
      baseline_size |-> r.baseline_size, status |-> r.status] : r \in files}

\* C1: a reconciliation (scan visit, or notification with a hint other than
\* deleted) of a path whose OK baseline entry holds another hash than the file
\* has now records exactly one event, of kind modified, with previousHash the
\* stored and newHash the current hash, and leaves the entry OK with the
\* current hash.
C1_HashChangeDetection ==
    (/\ IsReconciliation
     /\ TheCall.hint # "deleted"
     /\ TheCall.existing # {}
     /\ TheCall.present /\ TheCall.new_hash # None
     /\ FoundRow.status = "OK" /\ FoundRow.baseline_hash # None
     /\ FoundRow.baseline_hash # TheCall.new_hash)
    => (/\ TheCall.nrec = 1
        /\ change_log # <<>>
        /\ LastEvent.file_path = TheCall.path
        /\ LastEvent.event_type = "modified"
        /\ LastEvent.old_hash = FoundRow.baseline_hash
        /\ LastEvent.new_hash = TheCall.new_hash
        /\ RowNow # {}
        /\ \A r \in RowNow : r.baseline_hash = TheCall.new_hash /\ r.status = "OK")

\* C2: a reconciliation of a present file whose hash equals the hash of its
\* OK baseline entry records no event, whatever the hint.
C2_NoOpStability ==
    (/\ IsReconciliation
     /\ TheCall.hint # "deleted"
     /\ TheCall.existing # {}
     /\ TheCall.present /\ TheCall.new_hash # None
     /\ FoundRow.status = "OK"
     /\ FoundRow.baseline_hash = TheCall.new_hash)
    => TheCall.nrec = 0

\* The deleted notification of a path with an OK baseline entry, and the created
\* notification that finds the file back, readable, with no entry, right
\* after the deleted event of the path.
IsDeletion ==
    /\ IsReconciliation
    /\ TheCall.hint = "deleted"
    /\ TheCall.existing # {}
    /\ FoundRow.status = "OK" /\ FoundRow.baseline_hash # None
LogBefore == Len(change_log) - TheCall.nrec
IsRecreation ==
    /\ IsReconciliation
    /\ TheCall.hint = "created"
    /\ TheCall.existing = {}
    /\ TheCall.present /\ TheCall.new_hash # None
    /\ LogBefore >= 1
    /\ change_log[LogBefore].file_path = TheCall.path
    /\ change_log[LogBefore].event_type = "deleted"
    /\ change_log[LogBefore].old_hash = TheCall.new_hash
OneDeletedEvent ==
    /\ TheCall.nrec = 1
    /\ change_log # <<>>
    /\ LastEvent.file_path = TheCall.path
    /\ LastEvent.event_type = "deleted"
    /\ LastEvent.old_hash = FoundRow.baseline_hash
    /\ LastEvent.new_hash = None
OneCreatedEvent ==
    /\ TheCall.nrec = 1
    /\ change_log # <<>>
    /\ LastEvent.file_path = TheCall.path
    /\ LastEvent.event_type = "created"
    /\ LastEvent.old_hash = None
    /\ LastEvent.new_hash = TheCall.new_hash
EntryOkWithProbedHash ==
    /\ RowNow # {}
    /\ \A r \in RowNow : r.baseline_hash = TheCall.new_hash /\ r.status = "OK"

C4_IdempotentRescan ==
    [][(last.op = "scan_all_paths" /\ last'.op = "scan_all_paths")
       => (/\ change_log' = change_log
           /\ Baseline(monitored_files') = Baseline(monitored_files))]_vars

C4_Witness ==
    /\ last.repeat
    /\ change_log # <<>>
    /\ \A p \in ScanFiles : get_file_info(monitored_files, p) # {}

\* A reconciliation that finds a present, readable, in-scope file with no
\* baseline entry.
IsFirstSighting ==
    /\ IsReconciliation
    /\ TheCall.hint # "deleted"
    /\ TheCall.existing = {}
    /\ TheCall.present /\ TheCall.new_hash # None

C6_AbsentSilent ==
    (/\ IsReconciliation
     /\ TheCall.fn = "handle_file_change"
     /\ ~TheCall.present
     /\ TheCall.existing = {})
    => (TheCall.nrec = 0 /\ RowNow = {})

\* C7: the events recorded for a path are at most the changes of the path's
\* presence or content (one more for the first sight of a file that was there
\* from the start).
C7_EventsWithinChanges ==
    \A p \in Paths : Cardinality(EventsOf(p)) <= changes[p] + 1

\* C8: at most one baseline entry per path, and an entry's hash is present
\* exactly when its status is not MISSING.
C8_BaselineInvariant ==
    /\ \A r1, r2 \in monitored_files : r1.file_path = r2.file_path => r1 = r2
    /\ \A r \in monitored_files : (r.baseline_hash # None) <=> (r.status # "MISSING")

C10_ReadFailureNoOp ==
    (/\ IsReconciliation
     /\ TheCall.hint # "deleted"
     /\ TheCall.present
     /\ TheCall.new_hash = None)
    => (TheCall.nrec = 0 /\ RowNow = TheCall.existing)

\* C11: when the insert of the event fails during a reconciliation of a
\* readable file (or of a deletion), the baseline entry of the path is left
\* as the reconciliation found it, so that the change is detected again.
C11_StoreFailureKeepsBaseline ==
    (/\ IsReconciliation
     /\ TheCall.lost
     /\ \/ TheCall.hint = "deleted"
        \/ TheCall.present /\ TheCall.new_hash # None)
    => RowNow = TheCall.existing

\* C13: one moved notification whose destination is there and readable makes
\* exactly two reconciliations and records
\* exactly one event for the destination path, of kind renamed when the two
\* paths are in one directory (then the last call carries the renamed hint).
C13_MoveRecordsOneEvent ==
    (/\ last.op = "on_moved"
     /\ TheCall.monitored
     /\ TheCall.present /\ TheCall.new_hash # None)
    => (/\ TheCall.ncalls = 2
        /\ TheCall.nrec_op = 1
        /\ TheCall.hint = "renamed" => LastEvent.event_type = "renamed")

\* C20: a reconciliation that finds the file absent for a path with an OK
\* baseline entry records one deleted event (previousHash the stored hash, no
\* newHash) and retains the entry, with status MISSING.
C20_DeletionStep ==
    (/\ IsReconciliation
     /\ ~TheCall.present
     /\ TheCall.existing # {}
     /\ FoundRow.status = "OK" /\ FoundRow.baseline_hash # None)
    => (/\ OneDeletedEvent
        /\ RowNow # {}
        /\ \A r \in RowNow : r.status = "MISSING")

\* C14: the monitorability decision for a regular file is the same at the
\* three call sites: baseline initialisation, full scan, notification triage.
C14_FilterPurity ==
    \A p \in Paths :
        fs[p].kind = "file" =>
            /\ init_should_monitor_file(fs, p) <=> accepted_by_scan(fs, p)
            /\ accepted_by_scan(fs, p) <=> accepted_by_notification(fs, p)

\* C15: no reconciliation adds or changes a baseline entry or records an
\* event for a path that holds a symbolic link or a directory.
C15_NoLinkNoDirectory ==
    (IsReconciliation /\ (islink(fs, TheCall.path) \/ is_directory(fs, TheCall.path)))
    => (TheCall.nrec = 0 /\ RowNow = TheCall.existing)

\* C18: update_file_info(path, hash, size) leaves exactly one entry for the
\* path, with the given hash and size, status OK, updated_at and
\* last_scanned_time at the current time; an entry that was there keeps its id
\* and created_at; the entries of the other paths are unchanged.
C18_BaselineUpsert ==
    [][last'.op = "update_file_info" =>
         LET c == last'.call
             after == {r \in monitored_files' : r.file_path = c.path}
         IN  /\ Cardinality(after) = 1
             /\ \A r \in after :
                   /\ r.baseline_hash = c.new_hash
                   /\ r.baseline_size = c.file_size
                   /\ r.status = "OK"
                   /\ r.updated_at = now' /\ r.last_scanned_time = now'
                   /\ \A o \in c.existing : r.id = o.id /\ r.created_at = o.created_at
                   /\ c.existing = {} => r.created_at = now' /\ r.id = file_seq + 1
             /\ {r \in monitored_files' : r.file_path # c.path}
                  = {r \in monitored_files : r.file_path # c.path}]_vars

C18_Witness ==
    /\ last.op = "update_file_info"
    /\ TheCall.existing # {}
    /\ FoundRow.created_at < now
    /\ FoundRow.baseline_hash # TheCall.new_hash
    /\ FoundRow.baseline_size # TheCall.file_size
    /\ \E r \in monitored_files : r.file_path # TheCall.path /\ r.id > FoundRow.id

\* A thread that has read the baseline of a path and not yet finished the
\* reconciliation: it is about to record the event or to write the baseline.
PastRead(th) == threads[th].pc \in {"hfc_record", "hfc_write", "pf_write", "pf_touch"}

\* C12: the reconciliation of a path by handle_file_change on the observer
\* thread and the one by _process_file on the scanning thread do not
\* interleave: while one of them is between its read of the baseline and the
\* end of its write, the other is not.
C12_PerPathSerialisation ==
    ~(/\ PastRead("main")
      /\ PastRead("observer")
      /\ threads["main"].path = threads["observer"].path)

\* C16: start_monitoring called while is_monitoring holds changes nothing:
\* the watches of every root, the observer's state and is_monitoring stay as
\* they were and nothing is raised; a notification dispatched after such a
\* call reaches handle_file_change exactly once.
C16_StartIdempotent ==
    [][/\ (last'.op = "start_monitoring" /\ is_monitoring) =>
              /\ is_monitoring'
              /\ ~last'.call.raised
              /\ observer'.handlers = observer.handlers
              /\ observer'.state = observer.state
              /\ observer'.stopped = observer.stopped
       /\ (last'.op = "dispatch" /\ observer.warned) => last'.call.ncalls = 1]_vars

\* A notification is dispatched after start_monitoring was called while
\* monitoring was running.
C16_Witness ==
    /\ last.op = "dispatch"
    /\ observer.warned
    /\ is_monitoring
    /\ threads["observer"].pc = "hfc_probe"

PendingWrite(th) ==
    LET my == threads[th]
    IN  IF ~may_use_connection(th) THEN monitored_files
        ELSE IF my.pc = "pf_touch" THEN update_scan_time(db, my.path).files
        ELSE IF my.pc = "pf_write"
             THEN update_file_info(db, my.path, my.new_hash, getsize(fs, my.path)).files
        ELSE IF my.hint # "deleted"
             THEN update_file_info(db, my.path, my.new_hash, my.file_size).files
        ELSE remove_file_info(db, my.path).files

\* C19: a get_file_info made by one thread while another thread is in
\* update_file_info or remove_file_info for the same path returns the entry
\* as it is before that write or as it is after it.
C19_AtomicRead ==
    \A reader, writer \in Threads :
        (/\ reader # writer
         /\ last.op = "get_file_info"
         /\ TheCall.thread = reader
         /\ threads[writer].pc \in {"hfc_write", "pf_write", "pf_touch"}
         /\ threads[writer].path = TheCall.path
         /\ (threads[writer].pc = "pf_write" => exists(fs, TheCall.path)))
        => TheCall.existing \in {get_file_info(monitored_files, TheCall.path),
                                 get_file_info(PendingWrite(writer), TheCall.path)}

\* C21: the outcome of a notification's reconciliation of a readable file
\* does not depend on its hint: from the same baseline and the same file,
\* every hint among
\* created, modified and deleted records as many events, of the same kind,
\* and leaves the same baseline as the hint the notification carried.
C21_HintNotAuthoritative ==
    [][(/\ last'.op = "notify"
        /\ last'.call.monitored /\ ~last'.call.raised
        /\ fs[last'.call.path].present /\ fs[last'.call.path].readable) =>
          \A k \in {"created", "modified", "deleted"} :
              LET c == handle_file_change(db, fs, last'.call.path, k, now, FALSE)
              IN  /\ c.st.lseq - log_seq = last'.call.nrec
                  /\ c.st.lseq > log_seq =>
                        c.st.log[Len(c.st.log)].event_type
                            = change_log'[Len(change_log')].event_type
                  /\ Baseline(c.st.files) = Baseline(monitored_files')]_vars

\* C22: a deleted notification handled while the file is on disk with the
\* hash of its baseline entry records no event and leaves the entry in
\* place; a deleted event is recorded only for a file that is absent.
C22_StaleDeletedSuppressed ==
    /\ (/\ IsReconciliation
        /\ TheCall.hint = "deleted"
        /\ TheCall.present
        /\ TheCall.existing # {}
        /\ FoundRow.baseline_hash # None
        /\ FoundRow.baseline_hash = calculate_file_hash(fs, TheCall.path))
       => (/\ TheCall.nrec = 0
           /\ RowNow # {}
           /\ \A r \in RowNow : r.status = "OK"
                                /\ r.baseline_hash = FoundRow.baseline_hash)
    /\ (IsReconciliation /\ TheCall.nrec > 0 /\ LastEvent.event_type = "deleted")
       => ~TheCall.present

\* C24: a reconciliation of a present file whose hash is the hash of its OK
\* baseline entry records no event, leaves the entry's hash, size and status
\* as they were, sets its last_scanned_time to the time of the call and
\* changes no other entry.
C24_UnchangedBookkeeping ==
    [][LET c == last'.call
           found == CHOOSE r \in c.existing : TRUE
       IN  (/\ last'.op \in {"notify", "on_moved", "scan_path"}
            /\ c.fn \in {"handle_file_change", "_process_file"}
            /\ c.monitored /\ ~c.raised
            /\ c.present
            /\ c.existing # {}
            /\ found.status = "OK"
            /\ found.baseline_hash # None
            /\ found.baseline_hash = calculate_file_hash(fs, c.path))
           => (/\ change_log' = change_log
               /\ \A r \in monitored_files : r.file_path # c.path => r \in monitored_files'
               /\ \A r \in monitored_files' : r.file_path # c.path => r \in monitored_files
               /\ \E r \in monitored_files' :
                     /\ r.file_path = c.path
                     /\ r.id = found.id
                     /\ r.baseline_hash = found.baseline_hash
                     /\ r.baseline_size = found.baseline_size
                     /\ r.status = "OK"
                     /\ r.last_scanned_time = now)]_vars

\* C25: a scan visit with force_rescan set compares the file with its
\* baseline entry: another hash than the stored one gives one modified event
\* with both hashes, the same hash gives none, and either way the entry ends
\* OK with the current hash and size and the time of the scan.
C25_ForceRescanCompares ==
    (/\ TheCall.fn = "_process_file"
     /\ TheCall.hint = "force"
     /\ TheCall.new_hash # None
     /\ TheCall.existing # {}
     /\ FoundRow.status = "OK"
     /\ FoundRow.baseline_hash # None)
    => (/\ FoundRow.baseline_hash = TheCall.new_hash => TheCall.nrec = 0
        /\ FoundRow.baseline_hash # TheCall.new_hash =>
              (/\ TheCall.nrec = 1
               /\ LastEvent.file_path = TheCall.path
               /\ LastEvent.event_type = "modified"
               /\ LastEvent.old_hash = FoundRow.baseline_hash
               /\ LastEvent.new_hash = TheCall.new_hash)
        /\ RowNow # {}
        /\ \A r \in RowNow : /\ r.baseline_hash = TheCall.new_hash
                             /\ r.baseline_size = TheCall.file_size
                             /\ r.status = "OK"
                             /\ r.last_scanned_time = now)

\* C23: a reconciliation of a path the filter rejects has no effect: a
\* notification for such a path leaves the baseline store and the event log
\* as they were, and a scan neither changes the entry of such a path nor
\* records an event for it.
C23_FilterRejectionNoEffect ==
    [][/\ (last'.op = "notify" /\ ~should_monitor_file(last'.call.path)) =>
              (monitored_files' = monitored_files /\ change_log' = change_log)
       /\ last'.op \in {"scan_path", "scan_all_paths"} =>
              \A p \in Paths : ~should_monitor_file(p) =>
                  /\ get_file_info(monitored_files', p) = get_file_info(monitored_files, p)
                  /\ \A i \in 1..Len(change_log') :
                        change_log'[i].file_path = p => i <= Len(change_log)]_vars

\* A notification for a rejected path whose file is on disk and has a
\* baseline entry.
C23_Witness ==
    /\ last.op = "notify"
    /\ ~should_monitor_file(TheCall.path)
    /\ TheCall.present
    /\ TheCall.existing # {}
    /\ TheCall.hint = "deleted"

\* C29: cleanup_old_events(days) removes the events whose event time is
\* before now minus days and no other: every event it leaves was there and
\* is unchanged, every event not older than the cutoff is left, in the
\* order it had, and no baseline entry changes; so two events of the same
\* event time are removed together or kept together.
C29_CleanupByAge ==
    [][last'.op = "cleanup_old_events" =>
          LET cutoff == now - last'.call.days_to_keep * SecondsPerDay
              Before == {change_log[i] : i \in 1..Len(change_log)}
              After == {change_log'[i] : i \in 1..Len(change_log')}
          IN  /\ After = {e \in Before : e.event_time >= cutoff}
              /\ \A i, j \in 1..Len(change_log') :
                    i < j => change_log'[i].id < change_log'[j].id
              /\ \A e1, e2 \in Before :
                    e1.event_time = e2.event_time => (e1 \in After <=> e2 \in After)
              /\ monitored_files' = monitored_files
              /\ file_seq' = file_seq /\ log_seq' = log_seq]_vars

\* A cleanup with a horizon of one day has removed one event and kept a
\* younger one, with a baseline entry in the store.
C29_Witness ==
    /\ last.op = "cleanup_old_events"
    /\ TheCall.days_to_keep = 1
    /\ Len(change_log) = 1
    /\ log_seq = 2
    /\ change_log[1].event_time > 0
    /\ monitored_files # {}

\* C28: start_monitoring called while monitoring is not running, with some
\* configured roots on disk and some missing, schedules one watch on every
\* root that exists and none on a missing one, raises nothing and leaves
\* monitoring running: is_monitoring true, the observer alive.
C28_MissingRootTolerated ==
    [][(/\ last'.op = "start_monitoring"
        /\ ~is_monitoring
        /\ \E i \in DOMAIN root_exists : root_exists[i]
        /\ \E i \in DOMAIN root_exists : ~root_exists[i])
       => (/\ \A i \in DOMAIN root_exists :
                observer'.handlers[i] = IF root_exists[i] THEN 1 ELSE 0
           /\ ~last'.call.raised
           /\ is_monitoring'
           /\ observer'.state = "alive"
           /\ ~observer'.stopped)]_vars

\* C30: start_monitoring called after a start and a stop brings monitoring
\* back: nothing is raised, is_monitoring is true, the observer is alive and
\* watches every root; and outside stop_monitoring is_monitoring holds only
\* while the observer is alive and not stopped.
C30_Restart ==
    [][/\ (/\ last'.op = "start_monitoring"
           /\ ~is_monitoring
           /\ observer.stopped)
          => (/\ ~last'.call.raised
              /\ is_monitoring'
              /\ observer'.state = "alive"
              /\ ~observer'.stopped
              /\ \A i \in DOMAIN root_exists :
                    root_exists[i] => observer'.handlers[i] = 1)
       /\ (is_monitoring' /\ threads'["main"].pc # "join")
          => (observer'.state = "alive" /\ ~observer'.stopped)]_vars

\* C26: a full scan during which a path fails (its hashing fails, or stat of
\* it raises) still visits every other file in scope under every root:
\* when scan_all_paths returns, each readable, accepted regular file has a
\* baseline entry with its current hash, scanned at the time of the scan.
C26_ScanSurvivesFailure ==
    (/\ last.op = "scan_all_paths"
     /\ \E q \in Paths : fs[q].present /\ ~fs[q].readable)
    => \A p \in Paths :
          (fs[p].kind = "file" /\ fs[p].readable /\ should_monitor_file(p))
          => \E r \in monitored_files : /\ r.file_path = p
                                        /\ r.baseline_hash = fs[p].hash
                                        /\ r.last_scanned_time = now

\* C27: every full scan that has started ends: the event-loop thread, once
\* in scan_all_paths, is eventually outside it again, whatever files and
\* roots fail and whether or not monitoring is running.
C27_ScanTerminates ==
    (threads["main"].scan # "none") ~> (threads["main"].pc = "idle")

\* A scan has ended during which stat of a path raised, with monitoring
\* running and a handler of the observer thread in flight.
C27_Witness ==
    /\ last.op = "scan_done"
    /\ threads["main"].pc = "idle"
    /\ is_monitoring
    /\ threads["observer"].pc # "idle"
    /\ \E p \in Paths : stat_raises(fs, p)

\* ------------------------------------------------ the trail and the baseline
\* C31: the stored hash of a path's baseline entry never changes value
\* without an event for the path that carries the old hash as its previous
\* hash and the new hash as its new hash being recorded in the same step.
C31_AuditContinuity ==
    [][\A p \in Paths :
          LET before == get_file_info(monitored_files, p)
              after == get_file_info(monitored_files', p)
              old == (CHOOSE r \in before : TRUE).baseline_hash
              new == (CHOOSE r \in after : TRUE).baseline_hash
          IN  (before # {} /\ after # {} /\ old # new)
              => \E i \in 1..Len(change_log') :
                    /\ i > Len(change_log)
                    /\ change_log'[i].file_path = p
                    /\ change_log'[i].old_hash = old
                    /\ change_log'[i].new_hash = new]_vars

\* C32: the monitored_file_id of an event refers to the baseline row of the
\* event's own path or to no row at all, and a row that is inserted never
\* takes an id that an event recorded earlier refers to.
C32_LinkNeverMisattributed ==
    [][/\ \A i \in 1..Len(change_log') :
             \A id \in change_log'[i].monitored_file_id :
                \A r \in monitored_files' :
                   r.id = id => r.file_path = change_log'[i].file_path
       /\ \A r \in monitored_files' :
             (~ \E q \in monitored_files : q.id = r.id)
             => \A i \in 1..Len(change_log) : r.id \notin change_log[i].monitored_file_id]_vars

\* An event refers to a row that is gone, and its path has been baselined
\* again since, in a row with a later id.
C32_Witness ==
    \E i \in 1..Len(change_log) :
       \E id \in change_log[i].monitored_file_id :
          /\ ~ \E r \in monitored_files : r.id = id
          /\ \E r \in monitored_files :
                r.id > id /\ r.file_path = change_log[i].file_path

\* ------------------------------------------------- baseline initialisation
\* What every run of initialize_baseline does: it records no event, leaves
\* every row that exists as it is, and a second run over the same tree
\* changes nothing.
BaselineRunIsQuiet ==
    /\ change_log' = change_log
    /\ log_seq' = log_seq
    /\ monitored_files \subseteq monitored_files'
    /\ initialize_baseline(db', fs') = db'

\* The row initialize_baseline has added for a file: OK, with the file's hash.
AddedAtBaseline(p) ==
    /\ get_file_info(monitored_files, p) = {}
    /\ \E r \in monitored_files' :
          /\ r.file_path = p
          /\ r.status = "OK"
          /\ r.baseline_hash = fs[p].hash
          /\ r.baseline_size = getsize(fs, p)

C34_CheckReadOnly ==
    [][last'.op = "check_integrity"
       => /\ engine'.baseline_data = engine.baseline_data
          /\ engine'.baseline_file = engine.baseline_file
          /\ ~last'.call.saved
          /\ Len(last'.call.report) <= Len(last'.call.files)
          /\ engine.baseline_data = EmptyBaseline
             => last'.call.hashed = <<>> /\ last'.call.report = <<>>]_vars

\* A check has found one file modified and one file deleted.
C34_Witness ==
    /\ last.op = "check_integrity"
    /\ \E i, j \in 1..Len(last.call.report) :
          last.call.report[i] = "modified" /\ last.call.report[j] = "deleted"

\* C35: create_or_update_baseline sets the baseline hash of every readable
\* listed file to its current hash, leaves every other entry (of a listed
\* file that is unreadable or missing, of a file not listed) as it is, and
\* calls _save_baseline only when an entry was added or changed; a second
\* run with no file changed changes nothing and does not save.
C35_BaselineUpdateIdempotent ==
    [][last'.op = "create_or_update_baseline"
       => LET files == last'.call.files
              listed == {files[i] : i \in 1..Len(files)}
              again == create_or_update_baseline(engine', fs', files, project_root, TRUE)
          IN  /\ \A p \in EngineFiles :
                    LET k == relpath(p, project_root)
                        h == engine_calculate_file_hash(fs, p)
                    IN  IF p \in listed /\ h # None
                        THEN engine'.baseline_data[k] = h
                        ELSE engine'.baseline_data[k] = engine.baseline_data[k]
              /\ last'.call.saved => engine'.baseline_data # engine.baseline_data
              /\ ~last'.call.saved => engine'.baseline_file = engine.baseline_file
              /\ again.eng = engine'
              /\ ~again.call.saved]_vars

\* A run has saved the baseline after a list with a readable file and a file
\* that is gone or unreadable and has an entry.
C35_Witness ==
    /\ last.op = "create_or_update_baseline"
    /\ last.call.saved
    /\ \E i, j \in 1..Len(last.call.files) :
          /\ engine_calculate_file_hash(fs, last.call.files[i]) # None
          /\ engine_calculate_file_hash(fs, last.call.files[j]) = None
          /\ engine.baseline_data[relpath(last.call.files[j], project_root)] # None

====
